---- MODULE Spec2Model ----
(***************************************************************************)
(* Retention of old repository metadata (src/src/helpers.c).               *)
(*                                                                         *)
(* Four functions are modelled, each as the sequence of steps its code     *)
(* takes:                                                                  *)
(*   cr_repodata_blacklist_classic  selection by file name and mtime       *)
(*   cr_repodata_blacklist          selection by the old repomd.xml        *)
(*   cr_remove_metadata_classic     deletion of the blacklisted files      *)
(*   cr_old_metadata_retention      copy of the non-blacklisted files      *)
(* A directory path handed to these functions ends with a separator (the   *)
(* code concatenates directory and file name), so the base name of a       *)
(* concatenated path is the file name.                                     *)
(***************************************************************************)
EXTENDS Integers, Sequences, FiniteSets, TLC

\* ------------------------------------------------------------------ bounds
\* Modification times are drawn from 0..MaxTime.
MaxTime == 2
\* Retain counts are drawn from -2..MaxRetain.
MaxRetain == 2
\* Largest number of records of a parsed repomd.xml.
MaxRecords == 2

\* --------------------------------------------------------------- constants
\* glib's FALSE and TRUE as the integers a C int carries.
C_FALSE == 0
C_TRUE == 1
\* Return codes (error.h): CRE_OK is the first enumerator.
CRE_OK == 0
CRE_IO == 2
CRE_BADARG == 6
\* st_mtime substituted when stat() fails.
StatFailMtime == 1
\* num_of_lists: pri, pri_db, fil, fil_db, oth, oth_db.
NumOfLists == 6

NULL == "NULL"
RepomdName == "repomd.xml"

\* ------------------------------------------------------------------ strings
\* File names of the model's universe, each with its characters.
cPrimary == <<"p","r","i","m","a","r","y">>
cFilelists == <<"f","i","l","e","l","i","s","t","s">>
cOther == <<"o","t","h","e","r">>
cXml == <<".","x","m","l">>
cSqlite == <<".","s","q","l","i","t","e">>

Names ==
  { "repomd.xml", "README", "a1-primary.xml", "a2-primary.xml",
    "a3-primary.xml.gz", "b-primary.xml.gz", "x-filelists.xml",
    "f-filelists.sqlite.bz2" }

FileChars(f) ==
  CASE f = "repomd.xml" -> <<"r","e","p","o","m","d">> \o cXml
    [] f = "README" -> <<"R","E","A","D","M","E">>
    [] f = "a1-primary.xml" -> <<"a","1","-">> \o cPrimary \o cXml
    [] f = "a2-primary.xml" -> <<"a","2","-">> \o cPrimary \o cXml
    [] f = "a3-primary.xml.gz" -> <<"a","3","-">> \o cPrimary \o cXml \o <<".","g","z">>
    [] f = "b-primary.xml.gz" -> <<"b","-">> \o cPrimary \o cXml \o <<".","g","z">>
    [] f = "x-filelists.xml" -> <<"x","-">> \o cFilelists \o cXml
    [] f = "f-filelists.sqlite.bz2" ->
         <<"f","-">> \o cFilelists \o cSqlite \o <<".","b","z","2">>

\* The six markers, in the order of the if/else chain and of lists[].
Markers ==
  << cPrimary \o cXml, cPrimary \o cSqlite,
     cFilelists \o cXml, cFilelists \o cSqlite,
     cOther \o cXml, cOther \o cSqlite >>

\* strrchr(s, '.'): the index of the last dot, 0 when there is none.
LastDot(s) ==
  LET dots == {i \in 1..Len(s) : s[i] = "."}
  IN IF dots = {} THEN 0 ELSE CHOOSE i \in dots : \A j \in dots : j <= i

\* g_str_has_suffix
HasSuffix(s, suf) ==
  /\ Len(s) >= Len(suf)
  /\ SubSeq(s, Len(s) - Len(suf) + 1, Len(s)) = suf

\* Family with the suffix test made on the whole file name.
FamilyOfWholeName(f) ==
  LET s == FileChars(f)
      hits == {i \in 1..NumOfLists : HasSuffix(s, Markers[i])}
  IN IF LastDot(s) = 0 \/ hits = {} THEN 0
     ELSE CHOOSE i \in hits : \A j \in hits : i <= j

\* The list (1..6) the scan loop routes a file name to; 0: none.
Family(f) ==
  LET s == FileChars(f)
      d == LastDot(s)
  IN IF d = 0 THEN 0
     ELSE LET n == SubSeq(s, 1, d - 1)
              hits == {i \in 1..NumOfLists : HasSuffix(n, Markers[i])}
          IN IF hits = {} THEN 0
             ELSE CHOOSE i \in hits : \A j \in hits : i <= j

\* Family, tabulated over the universe.
FamilyOf == [f \in Names |-> Family(f)]

\* ------------------------------------------------------------ sorted lists
\* The comparison with its two results exchanged: older files first.
cmp_older_first(a, b) ==
  IF a.mtime < b.mtime THEN -1
  ELSE IF a.mtime > b.mtime THEN 1
  ELSE 0

cr_cmp_old_repodata_files(a, b) ==
  IF a.mtime < b.mtime THEN 1
  ELSE IF a.mtime > b.mtime THEN -1
  ELSE 0

\* g_slist_insert_sorted: before the first element the new one does not
\* compare greater than, at the end when there is none.
InsertSorted(list, x) ==
  LET stop == {i \in 1..Len(list) : cr_cmp_old_repodata_files(x, list[i]) <= 0}
      at == IF stop = {} THEN Len(list) + 1
            ELSE CHOOSE i \in stop : \A j \in stop : i <= j
  IN SubSeq(list, 1, at - 1) \o <<x>> \o SubSeq(list, at, Len(list))

\* cr_stat_and_insert, statOk telling whether stat() succeeds.
cr_stat_and_insert(list, f, mt, statOk) ==
  InsertSorted(list, [mtime |-> IF statOk THEN mt ELSE StatFailMtime, path |-> f])

\* One element too far.
NthIndexPlusOne(n) == n + 2

\* g_slist_nth(list, n) counts from 0: the index of that element in a
\* sequence.
NthIndex(n) == n + 1

\* The inner loop of "Append files to the blacklist": the elements from
\* g_slist_nth(list, n) on are prepended one by one.
RECURSIVE PrependFrom(_, _, _)
PrependFrom(bl, list, i) ==
  IF i > Len(list) THEN bl
  ELSE PrependFrom(<<list[i].path>> \o bl, list, i + 1)

\* The outer loop, over lists[x .. num_of_lists-1].
RECURSIVE AppendLists(_, _, _, _)
AppendLists(bl, ls, x, n) ==
  IF x > NumOfLists THEN bl
  ELSE AppendLists(PrependFrom(bl, ls[x], NthIndex(n)), ls, x + 1, n)

SeqToSet(s) == {s[i] : i \in 1..Len(s)}

\* g_slist_find_custom(blacklist, filename, g_strcmp0)
Blacklisted(bl, f) == f \in SeqToSet(bl)

\* g_path_get_basename of a relative path given by its components.
Basename(path) == path[Len(path)]

\* -------------------------------------------------------------------- state
VARIABLES
  op,         \* the function called: "classic", "manifest", "prune", "migrate"
  retain,     \* its retain argument
  files,      \* the directory at the call: file name -> modification time
  present,    \* the names the directory holds now
  oldExists,  \* g_file_test(old_repo, G_FILE_TEST_EXISTS)
  canOpen,    \* whether g_dir_open of the directory succeeds
  newRepo,    \* the destination: file name -> content ("new", or "old" once copied)
  parseOk,    \* whether cr_xml_parse_repomd succeeds
  records,    \* the records the parser appends to repomd->records
  pc,         \* position in the code
  todo,       \* entries g_dir_read_name has not returned yet
  lists,      \* pri_lst .. oth_db_lst
  blacklist,  \* the GSList of base names, head first
  selRet,     \* the selection function's gboolean result
  rc,         \* the entry point's return value, as a C int
  err,        \* *err: <<>> when unset, else <<code>>
  opens,      \* number of g_dir_open calls
  stats,      \* names stat() was called on
  statFailed, \* names whose stat() failed
  parsed,     \* whether cr_xml_parse_repomd was called
  removes,    \* names g_remove was called on
  rmFailed,   \* names whose g_remove failed
  cpCalls,    \* names cr_cp was called on
  cpFailed    \* names whose cr_cp failed

vars ==
  << op, retain, files, present, oldExists, canOpen, newRepo, parseOk, records,
     pc, todo, lists, blacklist, selRet, rc, err, opens, stats, statFailed,
     parsed, removes, rmFailed, cpCalls, cpFailed >>

fsVars == << files, oldExists, canOpen, parseOk, records >>
argVars == << op, retain >>
scanVars == << todo, lists, stats, statFailed >>
pruneLog == << removes, rmFailed >>
copyLog == << cpCalls, cpFailed >>

EmptyLists == [x \in 1..NumOfLists |-> <<>>]
Retains == (-2)..MaxRetain
Times == 0..MaxTime

\* The modification times a name is given. The three names below are never
\* passed to stat() (they belong to no family): one time is enough for them.
TimesOf(f) ==
  IF f \in {"repomd.xml", "README", "x-filelists.xml"} THEN {1} ELSE Times

\* The directories holding names of U, each entry with its modification time.
DirsOver(U) ==
  UNION { {d \in [S -> Times] : \A f \in S : d[f] \in TimesOf(f)} : S \in SUBSET U }

\* The names a directory handed to a selection function is drawn from, and
\* those of a repository handed to an entry point.
SelectNames ==
  { "README", "a1-primary.xml", "a2-primary.xml", "a3-primary.xml.gz",
    "b-primary.xml.gz", "f-filelists.sqlite.bz2" }
RepoNames ==
  { "repomd.xml", "x-filelists.xml", "a3-primary.xml.gz", "b-primary.xml.gz",
    "f-filelists.sqlite.bz2" }
\* The names the destination may hold before the migration.
DestNames == { "x-filelists.xml", "a3-primary.xml.gz" }

\* Records of a repomd.xml: location_href (a relative path, by its
\* components) and location_base (a string). NoHref and NULL stand for the
\* null pointer.
NoHref == << >>
Hrefs == { <<"repodata", "a3-primary.xml.gz">>, <<"x-filelists.xml">> }
RecordValues == [href : Hrefs \cup {NoHref}, base : {NULL, "http://base/"}]
RecordLists == UNION {[1..n -> RecordValues] : n \in 0..MaxRecords}

InitCommon ==
  /\ present = DOMAIN files
  /\ todo = {}
  /\ lists = EmptyLists
  /\ blacklist = <<>>
  /\ selRet = TRUE
  /\ rc = CRE_OK
  /\ err = <<>>
  /\ opens = 0
  /\ stats = {}
  /\ statFailed = {}
  /\ parsed = FALSE
  /\ removes = {}
  /\ rmFailed = {}
  /\ cpCalls = {}
  /\ cpFailed = {}

\* A call of cr_repodata_blacklist_classic.
InitClassic ==
  /\ op = "classic"
  /\ pc = "bl_classic"
  /\ retain \in Retains
  /\ files \in DirsOver(SelectNames)
  /\ canOpen \in BOOLEAN
  /\ oldExists = canOpen
  /\ newRepo = << >>
  /\ parseOk = TRUE
  /\ records = << >>
  /\ InitCommon

\* A call of cr_repodata_blacklist.
InitManifest ==
  /\ op = "manifest"
  /\ pc = "bl_manifest"
  /\ retain \in Retains
  /\ files \in DirsOver({RepomdName})
  /\ canOpen = TRUE
  /\ oldExists = TRUE
  /\ newRepo = << >>
  /\ parseOk \in BOOLEAN
  /\ records \in RecordLists
  /\ InitCommon

\* A call of cr_remove_metadata_classic.
InitPrune ==
  /\ op = "prune"
  /\ pc = "bl_classic"
  /\ retain \in Retains
  /\ files \in DirsOver(RepoNames)
  /\ canOpen \in BOOLEAN
  /\ oldExists = canOpen
  /\ newRepo = << >>
  /\ parseOk = TRUE
  /\ records = << >>
  /\ InitCommon

\* A call of cr_old_metadata_retention.
InitMigrate ==
  /\ op = "migrate"
  /\ pc = "mig_start"
  /\ retain \in Retains
  /\ files \in DirsOver(RepoNames)
  /\ oldExists \in BOOLEAN
  /\ canOpen \in {b \in BOOLEAN : b => oldExists}
  /\ newRepo \in {[f \in S |-> "new"] : S \in SUBSET DestNames}
  /\ parseOk = TRUE
  /\ records = << >>
  /\ InitCommon

\* ------------------------------------------- cr_repodata_blacklist_classic
\* Line 118: "-1 means retain all - nothing to be blacklisted".
ClassicRetainAll(n) == n = -1

\* Lines 116-138: the retain checks and g_dir_open.
ClassicEnter ==
  /\ pc = "bl_classic"
  /\ blacklist' = <<>>
  /\ IF ClassicRetainAll(retain)
     THEN /\ selRet' = TRUE
          /\ pc' = "selected"
          /\ UNCHANGED << err, opens, todo >>
     ELSE IF retain < 0
     THEN /\ err' = <<CRE_BADARG>>
          /\ selRet' = FALSE
          /\ pc' = "selected"
          /\ UNCHANGED << opens, todo >>
     ELSE /\ opens' = opens + 1
          /\ IF canOpen
             THEN /\ todo' = present
                  /\ pc' = "bl_scan"
                  /\ UNCHANGED << err, selRet >>
             ELSE /\ err' = <<CRE_IO>>
                  /\ selRet' = FALSE
                  /\ pc' = "selected"
                  /\ UNCHANGED todo
  /\ UNCHANGED << argVars, fsVars, present, newRepo, lists, rc, stats,
                  statFailed, parsed, pruneLog, copyLog >>

\* Lines 142-165: one iteration of the g_dir_read_name loop.
ScanEntry ==
  /\ pc = "bl_scan"
  /\ \E f \in todo :
       /\ todo' = todo \ {f}
       /\ IF FamilyOf[f] = 0
          THEN UNCHANGED << lists, stats, statFailed >>
          ELSE \E statOk \in BOOLEAN :
                 /\ stats' = stats \cup {f}
                 /\ statFailed' = IF statOk THEN statFailed ELSE statFailed \cup {f}
                 /\ lists' = [lists EXCEPT ![FamilyOf[f]] =
                                 cr_stat_and_insert(@, f, files[f], statOk)]
  /\ UNCHANGED << argVars, fsVars, present, newRepo, pc, blacklist, selRet, rc,
                  err, opens, parsed, pruneLog, copyLog >>

\* Lines 167-181: the end of the directory; the blacklist is built and the
\* lists are freed.
ScanDone ==
  /\ pc = "bl_scan"
  /\ todo = {}
  /\ blacklist' = AppendLists(blacklist, lists, 1, retain)
  /\ lists' = EmptyLists
  /\ selRet' = TRUE
  /\ pc' = "selected"
  /\ UNCHANGED << argVars, fsVars, present, newRepo, todo, rc, err, opens,
                  stats, statFailed, parsed, pruneLog, copyLog >>

\* --------------------------------------------------- cr_repodata_blacklist
\* The test without its retain == -1 half.
ManifestRetainPositive(n) == n > 0

\* Line 204: "retain all - nothing to be blacklisted".
ManifestRetainAll(n) == n = -1 \/ n > 0

\* The loop without its test of location_base.
RECURSIVE BlacklistRecordsWithBase(_, _, _)
BlacklistRecordsWithBase(bl, recs, i) ==
  IF i > Len(recs) THEN bl
  ELSE IF recs[i].href = NoHref THEN BlacklistRecordsWithBase(bl, recs, i + 1)
  ELSE BlacklistRecordsWithBase(<<Basename(recs[i].href)>> \o bl, recs, i + 1)

\* The loop of lines 229-247 over repomd->records.
RECURSIVE BlacklistRecords(_, _, _)
BlacklistRecords(bl, recs, i) ==
  IF i > Len(recs) THEN bl
  ELSE IF recs[i].href = NoHref THEN BlacklistRecords(bl, recs, i + 1)
  ELSE IF recs[i].base # NULL THEN BlacklistRecords(bl, recs, i + 1)
  ELSE BlacklistRecords(<<Basename(recs[i].href)>> \o bl, recs, i + 1)

\* Lines 202-250, the whole function: it has no step that depends on an
\* answer of the environment other than the parse.
Manifest ==
  /\ pc = "bl_manifest"
  /\ pc' = "selected"
  /\ IF ManifestRetainAll(retain)
     THEN /\ blacklist' = <<>>
          /\ selRet' = TRUE
          /\ UNCHANGED << err, parsed >>
     ELSE IF retain < 0
     THEN /\ blacklist' = <<>>
          /\ err' = <<CRE_BADARG>>
          /\ selRet' = FALSE
          /\ UNCHANGED parsed
     ELSE /\ parsed' = TRUE
          /\ blacklist' = BlacklistRecords(<<>>, IF parseOk THEN records ELSE <<>>, 1)
          /\ selRet' = TRUE
          /\ UNCHANGED err
  /\ UNCHANGED << argVars, fsVars, present, newRepo, scanVars, rc, opens,
                  pruneLog, copyLog >>

\* ---------------------------------------------- cr_remove_metadata_classic
\* Line 275: "Always remove repomd.xml".
PruneBlacklist(bl) == <<RepomdName>> \o bl

\* Lines 271-284: after the selection returned.
PruneAfterSelect ==
  /\ op = "prune"
  /\ pc = "selected"
  /\ IF ~selRet
     THEN /\ rc' = C_FALSE
          /\ pc' = "done"
          /\ UNCHANGED << blacklist, opens, err, todo >>
     ELSE /\ blacklist' = PruneBlacklist(blacklist)
          /\ opens' = opens + 1
          /\ IF canOpen
             THEN /\ todo' = present
                  /\ pc' = "walk"
                  /\ UNCHANGED << rc, err >>
             ELSE /\ err' = <<CRE_IO>>
                  /\ rc' = CRE_IO
                  /\ pc' = "done"
                  /\ UNCHANGED todo
  /\ UNCHANGED << argVars, fsVars, present, newRepo, lists, selRet, stats,
                  statFailed, parsed, pruneLog, copyLog >>

\* The removal loop leaving at the first g_remove that fails.
PruneEntryStopsOnFailure ==
  /\ op = "prune"
  /\ pc = "walk"
  /\ \E f \in todo :
       IF ~Blacklisted(blacklist, f)
       THEN /\ todo' = todo \ {f}
            /\ UNCHANGED << present, removes, rmFailed >>
       ELSE \E removeOk \in BOOLEAN :
              /\ todo' = IF removeOk THEN todo \ {f} ELSE {}
              /\ removes' = removes \cup {f}
              /\ present' = IF removeOk THEN present \ {f} ELSE present
              /\ rmFailed' = IF removeOk THEN rmFailed ELSE rmFailed \cup {f}
  /\ UNCHANGED << argVars, fsVars, newRepo, pc, lists, blacklist, selRet, rc,
                  err, opens, stats, statFailed, parsed, copyLog >>

\* Lines 288-305: one iteration of the removal loop; removeOk tells whether
\* g_remove succeeds.
PruneEntry ==
  /\ op = "prune"
  /\ pc = "walk"
  /\ \E f \in todo :
       /\ todo' = todo \ {f}
       /\ IF ~Blacklisted(blacklist, f)
          THEN UNCHANGED << present, removes, rmFailed >>
          ELSE \E removeOk \in BOOLEAN :
                 /\ removes' = removes \cup {f}
                 /\ present' = IF removeOk THEN present \ {f} ELSE present
                 /\ rmFailed' = IF removeOk THEN rmFailed ELSE rmFailed \cup {f}
  /\ UNCHANGED << argVars, fsVars, newRepo, pc, lists, blacklist, selRet, rc,
                  err, opens, stats, statFailed, parsed, copyLog >>

\* Lines 307-314: the end of the directory.
PruneDone ==
  /\ op = "prune"
  /\ pc = "walk"
  /\ todo = {}
  /\ pc' = "done"
  /\ UNCHANGED << argVars, fsVars, present, newRepo, todo, lists, blacklist,
                  selRet, rc, err, opens, stats, statFailed, parsed, pruneLog,
                  copyLog >>

\* ----------------------------------------------- cr_old_metadata_retention
\* The blacklist left as the selection returned it.
MigrateBlacklistAsSelected(bl) == bl

\* Line 346: "Never copy old repomd.xml to the new repository".
MigrateBlacklist(bl) == <<RepomdName>> \o bl

\* Lines 332-339: the existence test before the selection.
MigrateEnter ==
  /\ op = "migrate"
  /\ pc = "mig_start"
  /\ IF ~oldExists
     THEN /\ rc' = C_TRUE
          /\ pc' = "done"
     ELSE /\ pc' = "bl_classic"
          /\ UNCHANGED rc
  /\ UNCHANGED << argVars, fsVars, present, newRepo, scanVars, blacklist,
                  selRet, err, opens, parsed, pruneLog, copyLog >>

\* Lines 342-358: after the selection returned.
MigrateAfterSelect ==
  /\ op = "migrate"
  /\ pc = "selected"
  /\ IF ~selRet
     THEN /\ rc' = C_FALSE
          /\ pc' = "done"
          /\ UNCHANGED << blacklist, opens, err, todo >>
     ELSE /\ blacklist' = MigrateBlacklist(blacklist)
          /\ opens' = opens + 1
          /\ IF canOpen
             THEN /\ todo' = present
                  /\ pc' = "walk"
                  /\ UNCHANGED << rc, err >>
             ELSE /\ err' = <<CRE_IO>>
                  /\ rc' = C_FALSE
                  /\ pc' = "done"
                  /\ UNCHANGED todo
  /\ UNCHANGED << argVars, fsVars, present, newRepo, lists, selRet, stats,
                  statFailed, parsed, pruneLog, copyLog >>

\* The copy loop without its existence test.
DestNeverExists(dest, f) == FALSE

\* g_file_test(new_full_path, G_FILE_TEST_EXISTS)
DestExists(dest, f) == f \in DOMAIN dest

\* Lines 362-397: one iteration of the copy loop; copyOk tells whether cr_cp
\* succeeds.
MigrateEntry ==
  /\ op = "migrate"
  /\ pc = "walk"
  /\ \E f \in todo :
       /\ todo' = todo \ {f}
       /\ IF Blacklisted(blacklist, f) \/ DestExists(newRepo, f)
          THEN UNCHANGED << newRepo, cpCalls, cpFailed >>
          ELSE \E copyOk \in BOOLEAN :
                 /\ cpCalls' = cpCalls \cup {f}
                 /\ newRepo' = IF copyOk THEN (f :> "old") @@ newRepo ELSE newRepo
                 /\ cpFailed' = IF copyOk THEN cpFailed ELSE cpFailed \cup {f}
  /\ UNCHANGED << argVars, fsVars, present, pc, lists, blacklist, selRet, rc,
                  err, opens, stats, statFailed, parsed, pruneLog >>

\* Lines 399-406: the end of the directory; ret is still TRUE.
MigrateDone ==
  /\ op = "migrate"
  /\ pc = "walk"
  /\ todo = {}
  /\ rc' = C_TRUE
  /\ pc' = "done"
  /\ UNCHANGED << argVars, fsVars, present, newRepo, todo, lists, blacklist,
                  selRet, err, opens, stats, statFailed, parsed, pruneLog,
                  copyLog >>

\* ------------------------------------------------------------ specifications
\* The two selection functions, called on their own.
InitSelect == InitClassic \/ InitManifest
NextSelect == ClassicEnter \/ ScanEntry \/ ScanDone \/ Manifest
SpecSelect == InitSelect /\ [][NextSelect]_vars

\* The two entry points.
Init == InitPrune \/ InitMigrate
Next ==
  \/ ClassicEnter \/ ScanEntry \/ ScanDone
  \/ PruneAfterSelect \/ PruneEntry \/ PruneDone
  \/ MigrateEnter \/ MigrateAfterSelect \/ MigrateEntry \/ MigrateDone
Spec == Init /\ [][Next]_vars

\* -------------------------------------------------------------- properties
\* The files of the directory the scan routes to list x.
FamilyFiles(x) == {f \in DOMAIN files : FamilyOf[f] = x}

BlacklistSet == SeqToSet(blacklist)

\* The number of entries of the blacklist that name a file of S.
EntriesIn(S) == Cardinality({i \in 1..Len(blacklist) : blacklist[i] \in S})

Max0(a) == IF a > 0 THEN a ELSE 0
MinOf(a, b) == IF a < b THEN a ELSE b

\* The modification time the scan records for a file: the one stat() gives,
\* StatFailMtime when stat() failed.
RecordedTime(f) == IF f \in statFailed THEN StatFailMtime ELSE files[f]

\* A classic selection that returned success for a retain count >= 0.
ClassicSelected ==
  /\ op = "classic"
  /\ pc = "selected"
  /\ retain >= 0
  /\ selRet

\* C1, as stated: after a classic selection with retain n >= 0, every family
\* of k files has exactly max(k - n, 0) files in the blacklist, and no
\* blacklisted file of a family has a later modification time than a retained
\* file of the same family.
C1_AsStated ==
  ClassicSelected =>
    \A x \in 1..NumOfLists :
      /\ EntriesIn(FamilyFiles(x)) = Max0(Cardinality(FamilyFiles(x)) - retain)
      /\ Cardinality(FamilyFiles(x) \cap BlacklistSet)
           = Max0(Cardinality(FamilyFiles(x)) - retain)
      /\ \A b \in FamilyFiles(x) \cap BlacklistSet :
           \A r \in FamilyFiles(x) \ BlacklistSet : files[b] <= files[r]

\* C1, amended: the same, the order being that of the recorded modification
\* times: a file whose stat() fails counts as modified at time 1. The
\* blacklist names files of the six families only.
C1_OldestByRecordedTime ==
  ClassicSelected =>
    /\ \A x \in 1..NumOfLists :
         /\ EntriesIn(FamilyFiles(x)) = Max0(Cardinality(FamilyFiles(x)) - retain)
         /\ Cardinality(FamilyFiles(x) \cap BlacklistSet)
              = Max0(Cardinality(FamilyFiles(x)) - retain)
         /\ \A b \in FamilyFiles(x) \cap BlacklistSet :
              \A r \in FamilyFiles(x) \ BlacklistSet :
                RecordedTime(b) <= RecordedTime(r)
    /\ BlacklistSet \subseteq UNION {FamilyFiles(x) : x \in 1..NumOfLists}

\* Two files of one family with different times, one kept and the older one
\* blacklisted, beside a file of another family that is kept.
C1_Witness ==
  /\ ClassicSelected
  /\ retain = 1
  /\ statFailed = {}
  /\ {"a3-primary.xml.gz", "b-primary.xml.gz", "f-filelists.sqlite.bz2"}
       \subseteq DOMAIN files
  /\ files["a3-primary.xml.gz"] < files["b-primary.xml.gz"]
  /\ BlacklistSet = {"a3-primary.xml.gz"}

\* C5: with retain -1 both selection functions return success with an empty
\* blacklist, and no directory is opened, no file stat-ed and no manifest
\* parsed at any point of the call.
C5_RetainAllShortCircuits ==
  retain = -1 =>
    /\ opens = 0
    /\ stats = {}
    /\ ~parsed
    /\ pc # "bl_scan"
    /\ pc = "selected" => (selRet /\ blacklist = <<>> /\ err = <<>>)

\* The manifest mode returned for retain -1 although the manifest parses and
\* holds a record that retain 0 would blacklist.
C5_Witness ==
  /\ op = "manifest"
  /\ retain = -1
  /\ pc = "selected"
  /\ parseOk
  /\ \E i \in 1..Len(records) :
       records[i].href # NoHref /\ records[i].base = NULL
  /\ DOMAIN files # {}

\* The base names manifest mode is to blacklist: those of the records with a
\* location_href and without a location_base.
ManifestNames ==
  { r.href[Len(r.href)] :
      r \in {records[i] : i \in {j \in 1..Len(records) :
                                   /\ records[j].href # NoHref
                                   /\ records[j].base = NULL}} }

\* C6: manifest mode with retain 0 returns success, and the names of its
\* blacklist are exactly the base names of the records with a location_href
\* and no location_base; none when the manifest does not parse.
C6_ManifestBlacklist ==
  (op = "manifest" /\ retain = 0 /\ pc = "selected") =>
    /\ selRet
    /\ err = <<>>
    /\ BlacklistSet = IF parseOk THEN ManifestNames ELSE {}

\* A manifest of two records, one blacklisted and one with a base location.
C6_Witness ==
  /\ op = "manifest"
  /\ retain = 0
  /\ pc = "selected"
  /\ parseOk
  /\ Len(records) = 2
  /\ records[1] = [href |-> <<"repodata", "a3-primary.xml.gz">>, base |-> NULL]
  /\ records[2] = [href |-> <<"x-filelists.xml">>, base |-> "http://base/"]
  /\ blacklist = <<"a3-primary.xml.gz">>

\* The directory of the scenario: a1-primary.xml older than a2-primary.xml,
\* and a3-primary.xml.gz; retain 1.
C7_Scenario ==
  /\ op = "classic"
  /\ retain = 1
  /\ canOpen
  /\ DOMAIN files = {"a1-primary.xml", "a2-primary.xml", "a3-primary.xml.gz"}
  /\ files["a1-primary.xml"] < files["a2-primary.xml"]

\* C7, as stated: the selection on the scenario's directory yields the
\* blacklist {a1-primary.xml}.
C7_AsStated ==
  (C7_Scenario /\ pc = "selected") =>
    (selRet /\ BlacklistSet = {"a1-primary.xml"})

\* C7, amended: the selection on the scenario's directory yields the empty
\* blacklist; a3-primary.xml.gz is the one file routed to a family (the only
\* one stat-ed) and it is retained; a1-primary.xml and a2-primary.xml are
\* ignored.
C7_OnlyCompressedClassified ==
  (C7_Scenario /\ pc = "selected") =>
    /\ selRet
    /\ blacklist = <<>>
    /\ stats = {"a3-primary.xml.gz"}

C7_Witness ==
  /\ C7_Scenario
  /\ pc = "selected"
  /\ selRet
  /\ stats # {}

\* The names the destination held before the migration: a copy brings the
\* content "old".
DestBefore == {f \in DOMAIN newRepo : newRepo[f] = "new"}

\* C2: a migration step never touches an entry whose destination exists: no
\* cr_cp call is made for it, the destination keeps its content, and the old
\* file stays in the old directory.
C2_NeverOverwrites ==
  [][op = "migrate" =>
       /\ present' = present
       /\ \A f \in DOMAIN newRepo :
            /\ f \in DOMAIN newRepo'
            /\ newRepo'[f] = newRepo[f]
            /\ f \in cpCalls' => f \in cpCalls]_vars

\* The scenario: x-filelists.xml is in the old repository, not blacklisted,
\* and was at the destination already; the migration is over, it copied
\* another file, and both x-filelists.xml are as they were.
C2_Witness ==
  /\ op = "migrate"
  /\ pc = "done"
  /\ "x-filelists.xml" \in DOMAIN files
  /\ "x-filelists.xml" \in present
  /\ "x-filelists.xml" \in DestBefore
  /\ "x-filelists.xml" \notin cpCalls
  /\ cpCalls \ cpFailed # {}

\* C3: whenever the selection succeeded (retain >= -1), the blacklist
\* cr_remove_metadata_classic walks the directory with holds repomd.xml, a
\* repomd.xml in the directory gets its g_remove call, and
\* cr_old_metadata_retention never calls cr_cp on repomd.xml nor puts one at
\* the destination.
C3_ManifestAlwaysBlacklisted ==
  /\ (op = "prune" /\ pc = "walk") => Blacklisted(blacklist, RepomdName)
  /\ (op = "prune" /\ pc = "done" /\ selRet /\ canOpen /\ RepomdName \in DOMAIN files)
       => RepomdName \in removes
  /\ op = "migrate" => (RepomdName \notin cpCalls /\ RepomdName \notin DOMAIN newRepo)
  /\ (op = "migrate" /\ pc = "walk") => Blacklisted(blacklist, RepomdName)

\* A pruning with retain -1 that removed repomd.xml and nothing else.
C3_Witness ==
  /\ op = "prune"
  /\ pc = "done"
  /\ retain = -1
  /\ removes = {RepomdName}
  /\ RepomdName \notin present
  /\ present # {}

\* C4, as stated: for retain < -1 both entry points return a failing
\* invalid-argument result in every file system state, having opened no
\* directory and deleted or copied no file.
C4_AsStated ==
  (retain < -1 /\ pc = "done") =>
    /\ IF op = "prune" THEN rc # CRE_OK ELSE rc = C_FALSE
    /\ err = <<CRE_BADARG>>
    /\ opens = 0
    /\ removes = {}
    /\ cpCalls = {}
    /\ present = DOMAIN files
    /\ DOMAIN newRepo = DestBefore

\* C8, as stated: for retain >= -1, when the metadata directory cannot be
\* opened, cr_remove_metadata_classic returns a value other than CRE_OK with
\* an I/O error set, and removes no file.
C8_AsStated ==
  (op = "prune" /\ retain >= -1 /\ ~canOpen /\ pc = "done") =>
    /\ rc # CRE_OK
    /\ err = <<CRE_IO>>
    /\ removes = {}
    /\ present = DOMAIN files

\* An entry point that returned after walking the whole directory.
WalkedAll == pc = "done" /\ selRet /\ canOpen /\ oldExists

\* C9: a failed g_remove or cr_cp does not end the pass nor change its
\* result: once the call returned, every blacklisted entry of the directory
\* got its g_remove call, every entry neither blacklisted nor at the
\* destination got its cr_cp call, and the return value is that of success.
C9_FailuresDoNotAbort ==
  /\ (op = "prune" /\ WalkedAll) =>
       /\ removes = DOMAIN files \cap BlacklistSet
       /\ rc = CRE_OK
       /\ err = <<>>
  /\ (op = "migrate" /\ WalkedAll) =>
       /\ cpCalls = (DOMAIN files \ BlacklistSet) \ DestBefore
       /\ rc = C_TRUE
       /\ err = <<>>
  /\ (pc = "walk" /\ op = "prune") =>
       removes = ((DOMAIN files) \ todo) \cap BlacklistSet
  /\ (pc = "walk" /\ op = "migrate") =>
       cpCalls = (((DOMAIN files) \ todo) \ BlacklistSet) \ DestBefore

\* A pruning in which a g_remove failed and another one succeeded.
C9_Witness ==
  /\ op = "prune"
  /\ pc = "done"
  /\ rc = CRE_OK
  /\ rmFailed # {}
  /\ removes \ rmFailed # {}
  /\ Cardinality(removes) = 3

\* A pruning with retain >= 0 that returned.
Pruned == op = "prune" /\ retain >= 0 /\ pc = "done"

\* The files of a family that are among its n newest whatever the order of
\* equal times: fewer than n others are as new, by the times t.
SurelyNewest(x, n, t) ==
  {f \in FamilyFiles(x) :
     Cardinality({g \in FamilyFiles(x) \ {f} : t[g] >= t[f]}) < n}

RecordedTimes == [f \in DOMAIN files |-> RecordedTime(f)]

\* C10, as stated: after a pruning with retain n >= 0 every file that is in
\* no family and is not repomd.xml is still present; the n newest files of
\* each family are still present; and when the directory was walked and every
\* g_remove succeeded, each family of k files holds min(k, n) files.
C10_AsStated ==
  Pruned =>
    /\ \A f \in DOMAIN files :
         (FamilyOf[f] = 0 /\ f # RepomdName) => f \in present
    /\ \A x \in 1..NumOfLists :
         /\ SurelyNewest(x, retain, files) \subseteq present
         /\ (WalkedAll /\ rmFailed = {}) =>
              Cardinality(FamilyFiles(x) \cap present)
                = MinOf(Cardinality(FamilyFiles(x)), retain)

\* C10, amended: the same, the n newest being those by recorded modification
\* time: a file whose stat() fails counts as modified at time 1. Only
\* repomd.xml and files of the families are removed.
C10_PrunesOnlyBeyondRetain ==
  Pruned =>
    /\ \A f \in DOMAIN files :
         (FamilyOf[f] = 0 /\ f # RepomdName) => f \in present
    /\ \A x \in 1..NumOfLists :
         /\ SurelyNewest(x, retain, RecordedTimes) \subseteq present
         /\ Cardinality(FamilyFiles(x) \cap present)
              >= MinOf(Cardinality(FamilyFiles(x)), retain)
         /\ (WalkedAll /\ rmFailed = {}) =>
              Cardinality(FamilyFiles(x) \cap present)
                = MinOf(Cardinality(FamilyFiles(x)), retain)

\* A pruning with retain 1 of a directory with two files of one family, one
\* of another, repomd.xml and a file of no family: the older file of the
\* first family and repomd.xml are gone, the rest is there.
C10_Witness ==
  /\ Pruned
  /\ retain = 1
  /\ DOMAIN files = RepoNames
  /\ statFailed = {}
  /\ files["b-primary.xml.gz"] < files["a3-primary.xml.gz"]
  /\ present = {"x-filelists.xml", "a3-primary.xml.gz", "f-filelists.sqlite.bz2"}

====
